---- MODULE Spec2Model ----
(***************************************************************************)
(* AliPHOSDigitizer::Digitize (src/PHOS/AliPHOSDigitizer.cxx): the merge   *)
(* of noise and summable-digit streams into digits, the threshold removal  *)
(* and the re-indexing, as a state machine with one action per loop step.  *)
(* Spec runs one Digitize; SpecAgain applies the threshold removal a second*)
(* time; SpecExec runs Exec, its event loop and WriteDigits around it.      *)
(*                                                                         *)
(* Units.  Energies and thresholds are whole hundredths (0.01 -> 1), times *)
(* are whole tenths (1.0 -> 10).  Amplitudes are the Int_t raw amplitudes  *)
(* AliPHOSDigit holds.  C++ indices are kept 0-based (i, index[i], list    *)
(* positions); the element at 0-based position k of a sequence s is s[k+1].*)
(*                                                                         *)
(* Undefined behaviour.  A read through a null pointer either traps        *)
(* (pc = "segv") or yields the zero the page at address 0 holds where that *)
(* page is readable.  A write past the end of a heap object either traps   *)
(* or goes unnoticed.                                                      *)
(***************************************************************************)
EXTENDS Integers, Sequences, FiniteSets, TLC

VARIABLES
  nEMC,       \* Int_t nEMC: last channel id of the EMC class
  nCPV,       \* Int_t nCPV: last channel id of the CPV class
  sdigArray,  \* TObjArray of the input streams (TClonesArray of AliPHOSDigit)
  fARD,       \* the AliRunDigitizer, or NoARD in standalone mode
  gRandom,    \* the samples gRandom->Gaus returns, one per channel
  digits,     \* TClonesArray * digits: the slots of the digit list
  nextSig,    \* Int_t nextSig
  index,      \* TArrayI index: cursor of each stream
  absID,      \* Int_t absID
  i,          \* Int_t i
  contrib,    \* Int_t contrib
  times,      \* the TArrayF object `times` points to
  pc,         \* position in Exec and Digitize
  sDigitizer, \* whether gime->SDigitizer(GetName()) finds the SDigitizer
  treeD,      \* the output tree: whether it exists, and its branches
  treeE,      \* entries of gAlice->TreeE(): the events of the file
  option,     \* the option Exec was called with
  ievent,     \* Int_t ievent of Exec
  nevents,    \* Int_t nevents of Exec
  posted,     \* the summable digits on file, as the getter reads them
  inputTreeS, \* fARD->GetInputTreeS(k): whether the tree of input k exists
  folders,    \* the header files with a folder under
              \* YSAlice/WhiteBoard/SDigits/PHOS that holds SDigits of GetName()
  headerFile, \* const char* headerFile of MixWith
  feCurtime,  \* Float_t curtime of FrontEdgeTime
  feTime,     \* Float_t time of FrontEdgeTime
  feI         \* Int_t i of FrontEdgeTime

vars == <<nEMC, nCPV, sdigArray, fARD, gRandom, digits, nextSig, index,
          absID, i, contrib, times, pc, sDigitizer, treeD, treeE, option,
          ievent, nevents, posted, inputTreeS, folders, headerFile,
          feCurtime, feTime, feI>>

\* What Exec and the session hold; Digitize reads sDigitizer and writes none.
session == <<sDigitizer, treeD, treeE, option, ievent, nevents, posted,
             inputTreeS>>

\* What MixWith and FrontEdgeTime work on when called on their own.
aside == <<folders, headerFile, feCurtime, feTime, feI>>

-----------------------------------------------------------------------------
(* Bounds of the explored inputs *)

MaxInputs == 2

MaxRecords == 2

NEmcCells == 2

NCpvPads == 1

-----------------------------------------------------------------------------
(* Program constants *)

fEMCDigitThreshold == 1

fCPVDigitThreshold == 9

fPedestal == 0

fSlope == 10000000

NoSignal == 200000

PrimaryBase == 10000000

TimeOfNoise == 10

-----------------------------------------------------------------------------
(* Collaborators *)

\* (Int_t) x for a time held in tenths: truncation toward zero.
ToInt(t) == IF t >= 0 THEN t \div 10 ELSE -((-t) \div 10)

\* AliPHOSSDigitizer::Digitize(energy): (Int_t)(pedestal + energy * slope).
\* The energy is in whole hundredths and the slope a multiple of 100, so the
\* product is whole and the cast drops nothing.
Digitize(e) == fPedestal + e * (fSlope \div 100)

\* sDigitizer->Calibrate(amp) < threshold, with Calibrate(amp) =
\* (amp - pedestal) / slope and the threshold in hundredths.
CalibrateBelow(amp, threshold) ==
  amp - fPedestal < threshold * (fSlope \div 100)

\* new AliPHOSDigit(-1, absID, amp, time): no primary, no index yet.
NewDigit(id, amp, time) ==
  [id |-> id, amp |-> amp, time |-> time, prim |-> <<>>, index |-> -1]

\* An empty slot of a TClonesArray, and what TClonesArray::At returns for it.
NullDigit == [id |-> 0, amp |-> 0, time |-> 0, prim |-> <<>>, index |-> -1]

\* AliPHOSDigit::ShiftPrimary(shift): every primary of the record moved by shift.
ShiftPrimary(rec, shift) ==
  [rec EXCEPT !.prim = [k \in DOMAIN rec.prim |-> rec.prim[k] + shift]]

\* AliPHOSDigit::operator+ : amplitudes summed, primaries of both kept.
Plus(d, s) == [d EXCEPT !.amp = d.amp + s.amp, !.prim = d.prim \o s.prim]

\* AliRunDigitizer::GetMask(i): one offset space per input.
GetMask(ard, k) == ard.mask[k + 1]

NoARD == [mask |-> <<>>]

RunDigitizer == [mask |-> [k \in 1..(MaxInputs + 1) |-> PrimaryBase * k]]

\* TObjArray::At(k), 0-based: the element, or null outside the filled part.
At(s, k) == IF k + 1 \in DOMAIN s THEN s[k + 1] ELSE NullDigit

\* new TArrayF(n): n zeros (none for n <= 0).
TArrayF(n) == [k \in 1..n |-> 0]

\* TArrayF::Reset(): every element zero.
Reset(a) == [k \in DOMAIN a |-> 0]

input == Len(sdigArray)

-----------------------------------------------------------------------------
(* Inputs *)

\* Samples of Gaus(0., sigma) in hundredths, repeated along the channels:
\* none, the EMC threshold (1), the CPV threshold (9), one between the two,
\* and one below zero.
NoisePatterns == {<<0>>, <<1, 0, 5>>, <<5, 9, -5>>}

NoiseTapes(n) ==
  {[c \in 1..n |-> pat[((c - 1) % Len(pat)) + 1]] : pat \in NoisePatterns}

Kinds ==
  { [amp |-> Digitize(100), time |-> 70, prim |-> <<0>>],
    [amp |-> Digitize(50),  time |-> 5,  prim |-> <<PrimaryBase>>] }

Records(n) ==
  {[id |-> c, amp |-> k.amp, time |-> k.time, prim |-> k.prim] :
     c \in 1..n, k \in Kinds}

RECURSIVE SumTo(_, _)
SumTo(l, k) == IF k = 0 THEN 0 ELSE l[k] + SumTo(l, k - 1)

\* Every array of at most MaxInputs streams holding at most MaxRecords
\* records in all.
InputArrays(n) ==
  UNION { UNION { { [j \in 1..m |->
                      [r \in 1..l[j] |-> flat[SumTo(l, j - 1) + r]]] :
                    flat \in [1..SumTo(l, m) -> Records(n)] } :
                  l \in {ll \in [1..m -> 0..MaxRecords] :
                           SumTo(ll, m) <= MaxRecords} } :
          m \in 0..MaxInputs }

GeneralGeometry == [nEMC |-> NEmcCells, nCPV |-> NEmcCells + NCpvPads]

\* The end-to-end scenario of the specification: channels 1..4 and 5..6,
\* one stream depositing 1.0 on channel 2 and 0.5 on channel 6.
ScenarioGeometry == [nEMC |-> 4, nCPV |-> 6]

ScenarioArray ==
  << << [id |-> 2, amp |-> Digitize(100), time |-> 70, prim |-> <<0>>],
        [id |-> 6, amp |-> Digitize(50),  time |-> 5,
         prim |-> <<PrimaryBase>>] >> >>

-----------------------------------------------------------------------------
(* State after construction, before Digitize is entered *)

\* No output tree: fARD->GetTreeD() or gAlice->TreeD() returns null.
NoTree == [exists |-> FALSE, branches |-> <<>>]

InitWith(g, sd) ==
  /\ nEMC = g.nEMC
  /\ nCPV = g.nCPV
  /\ sdigArray = sd
  /\ fARD \in {NoARD, RunDigitizer}
  /\ gRandom \in NoiseTapes(g.nCPV)
  /\ digits = <<>>
  /\ nextSig = NoSignal
  /\ index = <<>>
  /\ absID = 0
  /\ i = 0
  /\ contrib = 0
  /\ times = <<>>
  /\ pc = "start"
  /\ sDigitizer = TRUE
  /\ treeD = NoTree
  /\ treeE = 0
  /\ option = ""
  /\ ievent = 0
  /\ nevents = 0
  /\ posted = sd
  /\ inputTreeS = <<>>
  /\ folders = <<>>
  /\ headerFile = 0
  /\ feCurtime = 0
  /\ feTime = 0
  /\ feI = 0

Init ==
  \/ \E sd \in InputArrays(GeneralGeometry.nCPV) : InitWith(GeneralGeometry, sd)
  \/ InitWith(ScenarioGeometry, ScenarioArray)

-----------------------------------------------------------------------------
(* Helpers of the merge *)

\* (AliPHOSDigit*)((TClonesArray*)sdigArray->At(k))->At(index[k])
Cur(k) == At(sdigArray[k + 1], index[k + 1])

\* if(curNext < nextSig) nextSig = curNext
Lower(curNext) == IF curNext < nextSig THEN curNext ELSE nextSig

\* The offset of input 0 given to every input.
PrimaryOffsetOfFirst(k) ==
  IF fARD # NoARD THEN GetMask(fARD, 0) ELSE PrimaryBase * 0

\* primaryoffset of input k
PrimaryOffset(k) ==
  IF fARD # NoARD THEN GetMask(fARD, k) ELSE PrimaryBase * k

\* FrontEdgeTime: the running minimum, read on while the element read is
\* not zero.  k is the 0-based position of the next element to read.
RECURSIVE FrontEdgeScan(_, _, _, _)
FrontEdgeScan(ts, curtime, time, k) ==
  IF curtime = 0 THEN time
  ELSE LET t == IF time > curtime THEN curtime ELSE time
       IN  IF k + 1 \in DOMAIN ts
           THEN FrontEdgeScan(ts, ts[k + 1], t, k + 1)
           ELSE t

FrontEdgeTime(ts) == FrontEdgeScan(ts, ts[1], ts[1], 1)

\* `times[contrib] = t` with `TArrayF * times`: the subscript indexes the
\* pointer, so for contrib = 0 the object itself is assigned TArrayF((Int_t) t)
\* and for contrib > 0 the assignment lands past the object.
TimesStore(ts, k, t) == IF k = 0 THEN TArrayF(ToInt(t)) ELSE ts

\* The stream array with the record under the cursor of input k replaced.
WithRecord(k, rec) ==
  [sdigArray EXCEPT ![k + 1][index[k + 1] + 1] = rec]

\* The digit list with the slot at 0-based position k replaced.
WithDigit(k, d) == [digits EXCEPT ![k + 1] = d]

\* Lines 236-244 and 281-290: shift the record's primaries in place and add
\* it to the digit of channel absID.
\* The record folded as it stands in the stream, without its offset.
Unshifted(k) == Cur(k)

Shifted(k) == ShiftPrimary(Cur(k), PrimaryOffset(k))

Folded(k) == Plus(digits[absID], Shifted(k))

\* Any record under the cursor taken, whatever its channel.
MatchesAny(k) == Cur(k) # NullDigit

Matches(k) == Cur(k) # NullDigit /\ Cur(k).id = absID

-----------------------------------------------------------------------------
(* Digitize, lines 160-215: the list is cleared and sized, the streams are  *)
(* collected, the first signal channel is looked for                        *)

\* Lines 160-186: the SDigitizer is not found; the list has been cleared
\* and sized by then, and abort() ends the process.
DigitizeAbort ==
  /\ pc = "start"
  /\ ~sDigitizer
  /\ digits' = [k \in 1..nCPV |-> NullDigit]
  /\ pc' = "abort"
  /\ UNCHANGED session
  /\ UNCHANGED aside
  /\ UNCHANGED <<nEMC, nCPV, sdigArray, fARD, gRandom, nextSig, index, absID,
                 i, contrib, times>>

DigitizeStart ==
  /\ pc = "start"
  /\ sDigitizer
  /\ digits' = [k \in 1..nCPV |-> NullDigit]
  /\ nextSig' = NoSignal
  /\ i' = 0
  /\ index' = [k \in 1..input |-> 0]
  /\ times' = TArrayF(input)
  /\ pc' = "first"
  /\ UNCHANGED session
  /\ UNCHANGED aside
  /\ UNCHANGED <<nEMC, nCPV, sdigArray, fARD, gRandom, absID, contrib>>

FirstSignal ==
  /\ pc = "first"
  /\ i < input
  /\ At(sdigArray[i + 1], 0) # NullDigit
  /\ nextSig' = Lower(At(sdigArray[i + 1], 0).id)
  /\ i' = i + 1
  /\ UNCHANGED session
  /\ UNCHANGED aside
  /\ UNCHANGED <<nEMC, nCPV, sdigArray, fARD, gRandom, digits, index, absID,
                 contrib, times, pc>>

\* The stream is empty: At(0) is null and GetId() reads through it.
FirstSignalNullRead ==
  /\ pc = "first"
  /\ i < input
  /\ At(sdigArray[i + 1], 0) = NullDigit
  /\ nextSig' = Lower(0)
  /\ i' = i + 1
  /\ UNCHANGED session
  /\ UNCHANGED aside
  /\ UNCHANGED <<nEMC, nCPV, sdigArray, fARD, gRandom, digits, index, absID,
                 contrib, times, pc>>

FirstSignalSegv ==
  /\ pc = "first"
  /\ i < input
  /\ At(sdigArray[i + 1], 0) = NullDigit
  /\ pc' = "segv"
  /\ UNCHANGED session
  /\ UNCHANGED aside
  /\ UNCHANGED <<nEMC, nCPV, sdigArray, fARD, gRandom, digits, nextSig, index,
                 absID, i, contrib, times>>

FirstSignalDone ==
  /\ pc = "first"
  /\ i = input
  /\ absID' = 1
  /\ pc' = "emc"
  /\ UNCHANGED session
  /\ UNCHANGED aside
  /\ UNCHANGED <<nEMC, nCPV, sdigArray, fARD, gRandom, digits, nextSig, index,
                 i, contrib, times>>

-----------------------------------------------------------------------------
(* Lines 220-265: noise and signal of the EMC channels *)

\* The noise digit made only where signal is due.
EMCNoiseOnSignalOnly ==
  /\ pc = "emc"
  /\ absID <= nEMC
  /\ IF absID = nextSig
     THEN /\ digits' = WithDigit(absID - 1,
                 NewDigit(absID, Digitize(gRandom[absID]), TimeOfNoise))
          /\ contrib' = 0
          /\ times' = TimesStore(times, 0, TimeOfNoise)
          /\ i' = 0
          /\ pc' = "emcAdd"
          /\ UNCHANGED absID
     ELSE /\ absID' = absID + 1
          /\ UNCHANGED <<digits, contrib, times, i, pc>>
  /\ UNCHANGED session
  /\ UNCHANGED aside
  /\ UNCHANGED <<nEMC, nCPV, sdigArray, fARD, gRandom, nextSig, index>>

\* The signal branch taken for every channel.
EMCNoiseAlwaysSignal ==
  /\ pc = "emc"
  /\ absID <= nEMC
  /\ digits' = WithDigit(absID - 1,
                         NewDigit(absID, Digitize(gRandom[absID]), TimeOfNoise))
  /\ contrib' = 0
  /\ times' = TimesStore(times, 0, TimeOfNoise)
  /\ i' = 0
  /\ pc' = "emcAdd"
  /\ UNCHANGED session
  /\ UNCHANGED aside
  /\ UNCHANGED <<nEMC, nCPV, sdigArray, fARD, gRandom, nextSig, index, absID>>

EMCNoise ==
  /\ pc = "emc"
  /\ absID <= nEMC
  /\ digits' = WithDigit(absID - 1,
                         NewDigit(absID, Digitize(gRandom[absID]), TimeOfNoise))
  /\ IF absID = nextSig
     THEN /\ contrib' = 0
          /\ times' = TimesStore(times, 0, TimeOfNoise)
          /\ i' = 0
          /\ pc' = "emcAdd"
          /\ UNCHANGED absID
     ELSE /\ absID' = absID + 1
          /\ UNCHANGED <<contrib, times, i, pc>>
  /\ UNCHANGED session
  /\ UNCHANGED aside
  /\ UNCHANGED <<nEMC, nCPV, sdigArray, fARD, gRandom, nextSig, index>>

EMCAdd ==
  /\ pc = "emcAdd"
  /\ i < input
  /\ Matches(i)
  /\ sdigArray' = WithRecord(i, Shifted(i))
  /\ digits' = WithDigit(absID - 1, Folded(i))
  /\ times' = TimesStore(times, contrib, Cur(i).time)
  /\ contrib' = contrib + 1
  /\ index' = [index EXCEPT ![i + 1] = @ + 1]
  /\ UNCHANGED session
  /\ UNCHANGED aside
  /\ UNCHANGED <<nEMC, nCPV, fARD, gRandom, nextSig, absID, i, pc>>

\* energies[contrib] and times[contrib] with contrib > 0 write past the
\* TArrayF objects.
EMCAddSegv ==
  /\ pc = "emcAdd"
  /\ i < input
  /\ Matches(i)
  /\ contrib > 0
  /\ sdigArray' = WithRecord(i, Shifted(i))
  /\ digits' = WithDigit(absID - 1, Folded(i))
  /\ pc' = "segv"
  /\ UNCHANGED session
  /\ UNCHANGED aside
  /\ UNCHANGED <<nEMC, nCPV, fARD, gRandom, nextSig, index, absID, i, contrib,
                 times>>

EMCNextInput ==
  /\ pc = "emcAdd"
  /\ i < input
  /\ ~Matches(i)
  /\ i' = i + 1
  /\ UNCHANGED session
  /\ UNCHANGED aside
  /\ UNCHANGED <<nEMC, nCPV, sdigArray, fARD, gRandom, digits, nextSig, index,
                 absID, contrib, times, pc>>

\* Lines 253-257.
EMCSetTime ==
  /\ pc = "emcAdd"
  /\ i = input
  /\ Len(times) > 0
  /\ digits' = WithDigit(absID - 1,
                         [digits[absID] EXCEPT !.time = FrontEdgeTime(times)])
  /\ times' = Reset(times)
  /\ i' = 0
  /\ pc' = "emcNext"
  /\ UNCHANGED session
  /\ UNCHANGED aside
  /\ UNCHANGED <<nEMC, nCPV, sdigArray, fARD, gRandom, nextSig, index, absID,
                 contrib>>

\* times holds no element: times->At(0) reads through its null fArray.
EMCSetTimeNullRead ==
  /\ pc = "emcAdd"
  /\ i = input
  /\ Len(times) = 0
  /\ digits' = WithDigit(absID - 1, [digits[absID] EXCEPT !.time = 0])
  /\ times' = Reset(times)
  /\ i' = 0
  /\ pc' = "emcNext"
  /\ UNCHANGED session
  /\ UNCHANGED aside
  /\ UNCHANGED <<nEMC, nCPV, sdigArray, fARD, gRandom, nextSig, index, absID,
                 contrib>>

EMCSetTimeSegv ==
  /\ pc = "emcAdd"
  /\ i = input
  /\ Len(times) = 0
  /\ pc' = "segv"
  /\ UNCHANGED session
  /\ UNCHANGED aside
  /\ UNCHANGED <<nEMC, nCPV, sdigArray, fARD, gRandom, digits, nextSig, index,
                 absID, i, contrib, times>>

\* Lines 258-263.
EMCFindNext ==
  /\ pc = "emcNext"
  /\ i < input
  /\ Cur(i) # NullDigit
  /\ nextSig' = Lower(Cur(i).id)
  /\ i' = i + 1
  /\ UNCHANGED session
  /\ UNCHANGED aside
  /\ UNCHANGED <<nEMC, nCPV, sdigArray, fARD, gRandom, digits, index, absID,
                 contrib, times, pc>>

\* The stream is used up: At(index[i]) is null and GetId() reads through it.
EMCFindNextNullRead ==
  /\ pc = "emcNext"
  /\ i < input
  /\ Cur(i) = NullDigit
  /\ nextSig' = Lower(0)
  /\ i' = i + 1
  /\ UNCHANGED session
  /\ UNCHANGED aside
  /\ UNCHANGED <<nEMC, nCPV, sdigArray, fARD, gRandom, digits, index, absID,
                 contrib, times, pc>>

EMCFindNextSegv ==
  /\ pc = "emcNext"
  /\ i < input
  /\ Cur(i) = NullDigit
  /\ pc' = "segv"
  /\ UNCHANGED session
  /\ UNCHANGED aside
  /\ UNCHANGED <<nEMC, nCPV, sdigArray, fARD, gRandom, digits, nextSig, index,
                 absID, i, contrib, times>>

EMCFindNextDone ==
  /\ pc = "emcNext"
  /\ i = input
  /\ absID' = absID + 1
  /\ pc' = "emc"
  /\ UNCHANGED session
  /\ UNCHANGED aside
  /\ UNCHANGED <<nEMC, nCPV, sdigArray, fARD, gRandom, digits, nextSig, index,
                 i, contrib, times>>

EMCDone ==
  /\ pc = "emc"
  /\ absID > nEMC
  /\ absID' = nEMC + 1
  /\ pc' = "cpv"
  /\ UNCHANGED session
  /\ UNCHANGED aside
  /\ UNCHANGED <<nEMC, nCPV, sdigArray, fARD, gRandom, digits, nextSig, index,
                 i, contrib, times>>

-----------------------------------------------------------------------------
(* Lines 269-307: noise and signal of the CPV channels (no timing) *)

CPVNoise ==
  /\ pc = "cpv"
  /\ absID <= nCPV
  /\ digits' = WithDigit(absID - 1,
                         NewDigit(absID, Digitize(gRandom[absID]), TimeOfNoise))
  /\ IF absID = nextSig
     THEN /\ i' = 0
          /\ pc' = "cpvAdd"
          /\ UNCHANGED absID
     ELSE /\ absID' = absID + 1
          /\ UNCHANGED <<i, pc>>
  /\ UNCHANGED session
  /\ UNCHANGED aside
  /\ UNCHANGED <<nEMC, nCPV, sdigArray, fARD, gRandom, nextSig, index, contrib,
                 times>>

\* The CPV digit given the record's time where that is the earlier one.
CPVAddWithTime ==
  /\ pc = "cpvAdd"
  /\ i < input
  /\ Matches(i)
  /\ sdigArray' = WithRecord(i, Shifted(i))
  /\ digits' = WithDigit(absID - 1,
                 [Folded(i) EXCEPT !.time = IF Cur(i).time < @
                                            THEN Cur(i).time ELSE @])
  /\ index' = [index EXCEPT ![i + 1] = @ + 1]
  /\ UNCHANGED session
  /\ UNCHANGED aside
  /\ UNCHANGED <<nEMC, nCPV, fARD, gRandom, nextSig, absID, i, contrib, times,
                 pc>>

CPVAdd ==
  /\ pc = "cpvAdd"
  /\ i < input
  /\ Matches(i)
  /\ sdigArray' = WithRecord(i, Shifted(i))
  /\ digits' = WithDigit(absID - 1, Folded(i))
  /\ index' = [index EXCEPT ![i + 1] = @ + 1]
  /\ UNCHANGED session
  /\ UNCHANGED aside
  /\ UNCHANGED <<nEMC, nCPV, fARD, gRandom, nextSig, absID, i, contrib, times,
                 pc>>

CPVNextInput ==
  /\ pc = "cpvAdd"
  /\ i < input
  /\ ~Matches(i)
  /\ i' = i + 1
  /\ UNCHANGED session
  /\ UNCHANGED aside
  /\ UNCHANGED <<nEMC, nCPV, sdigArray, fARD, gRandom, digits, nextSig, index,
                 absID, contrib, times, pc>>

CPVAddDone ==
  /\ pc = "cpvAdd"
  /\ i = input
  /\ i' = 0
  /\ pc' = "cpvNext"
  /\ UNCHANGED session
  /\ UNCHANGED aside
  /\ UNCHANGED <<nEMC, nCPV, sdigArray, fARD, gRandom, digits, nextSig, index,
                 absID, contrib, times>>

\* Lines 296-301.
CPVFindNext ==
  /\ pc = "cpvNext"
  /\ i < input
  /\ Cur(i) # NullDigit
  /\ nextSig' = Lower(Cur(i).id)
  /\ i' = i + 1
  /\ UNCHANGED session
  /\ UNCHANGED aside
  /\ UNCHANGED <<nEMC, nCPV, sdigArray, fARD, gRandom, digits, index, absID,
                 contrib, times, pc>>

CPVFindNextNullRead ==
  /\ pc = "cpvNext"
  /\ i < input
  /\ Cur(i) = NullDigit
  /\ nextSig' = Lower(0)
  /\ i' = i + 1
  /\ UNCHANGED session
  /\ UNCHANGED aside
  /\ UNCHANGED <<nEMC, nCPV, sdigArray, fARD, gRandom, digits, index, absID,
                 contrib, times, pc>>

CPVFindNextSegv ==
  /\ pc = "cpvNext"
  /\ i < input
  /\ Cur(i) = NullDigit
  /\ pc' = "segv"
  /\ UNCHANGED session
  /\ UNCHANGED aside
  /\ UNCHANGED <<nEMC, nCPV, sdigArray, fARD, gRandom, digits, nextSig, index,
                 absID, i, contrib, times>>

CPVFindNextDone ==
  /\ pc = "cpvNext"
  /\ i = input
  /\ absID' = absID + 1
  /\ pc' = "cpv"
  /\ UNCHANGED session
  /\ UNCHANGED aside
  /\ UNCHANGED <<nEMC, nCPV, sdigArray, fARD, gRandom, digits, nextSig, index,
                 i, contrib, times>>

\* The merge is over: energies, times and sdigArray are deleted and the
\* threshold loop starts at list position 0.
CPVDone ==
  /\ pc = "cpv"
  /\ absID > nCPV
  /\ absID' = 0
  /\ pc' = "removeEMC"
  /\ UNCHANGED session
  /\ UNCHANGED aside
  /\ UNCHANGED <<nEMC, nCPV, sdigArray, fARD, gRandom, digits, nextSig, index,
                 i, contrib, times>>

-----------------------------------------------------------------------------
(* Lines 311-329: threshold removal, Compress and the list indices *)

\* TClonesArray::RemoveAt(k): the slot is emptied.
RemoveAt(ds, k) == [ds EXCEPT ![k + 1] = NullDigit]

\* The removal loop removing nothing.
ThresholdedNever(ds, k, threshold) == ds

\* The removal loop removing what reaches the threshold.
ThresholdedAbove(ds, k, threshold) ==
  IF CalibrateBelow(At(ds, k).amp, threshold) THEN ds ELSE RemoveAt(ds, k)

\* The slot at 0-based position k after one step of a removal loop.
Thresholded(ds, k, threshold) ==
  IF CalibrateBelow(At(ds, k).amp, threshold) THEN RemoveAt(ds, k) ELSE ds

\* TClonesArray::Compress() followed by Expand(GetEntriesFast()): the empty
\* slots are squeezed out, the order of the others is kept.
IsDigit(d) == d # NullDigit

Compress(ds) == SelectSeq(ds, IsDigit)

\* A removal loop of lines 312-318 as a whole: positions from..to-1 of the
\* list against one threshold.
RECURSIVE RemoveLoop(_, _, _, _)
RemoveLoop(ds, from, to, threshold) ==
  IF from >= to THEN ds
  ELSE RemoveLoop(Thresholded(ds, from, threshold), from + 1, to, threshold)

\* Lines 312-323 for a list with one slot per channel: both removal loops
\* and Compress, under the thresholds emc and cpv.
ThresholdPass(ds, emc, cpv) ==
  Compress(RemoveLoop(RemoveLoop(ds, 0, nEMC, emc), nEMC, nCPV, cpv))

\* The list indices counted from 1.
SetIndexInListFromOne(ds, k) == [ds EXCEPT ![k + 1].index = k + 1]

\* digit->SetIndexInList(k) on the digit at 0-based position k.
SetIndexInList(ds, k) == [ds EXCEPT ![k + 1].index = k]

\* The EMC channels compared against the CPV threshold.
RemoveEMCWithCPVThreshold ==
  /\ pc = "removeEMC"
  /\ absID < nEMC
  /\ digits' = Thresholded(digits, absID, fCPVDigitThreshold)
  /\ absID' = absID + 1
  /\ UNCHANGED session
  /\ UNCHANGED aside
  /\ UNCHANGED <<nEMC, nCPV, sdigArray, fARD, gRandom, nextSig, index, i,
                 contrib, times, pc>>

RemoveEMC ==
  /\ pc = "removeEMC"
  /\ absID < nEMC
  /\ digits' = Thresholded(digits, absID, fEMCDigitThreshold)
  /\ absID' = absID + 1
  /\ UNCHANGED session
  /\ UNCHANGED aside
  /\ UNCHANGED <<nEMC, nCPV, sdigArray, fARD, gRandom, nextSig, index, i,
                 contrib, times, pc>>

RemoveEMCDone ==
  /\ pc = "removeEMC"
  /\ absID >= nEMC
  /\ absID' = nEMC
  /\ pc' = "removeCPV"
  /\ UNCHANGED session
  /\ UNCHANGED aside
  /\ UNCHANGED <<nEMC, nCPV, sdigArray, fARD, gRandom, digits, nextSig, index,
                 i, contrib, times>>

RemoveCPV ==
  /\ pc = "removeCPV"
  /\ absID < nCPV
  /\ digits' = Thresholded(digits, absID, fCPVDigitThreshold)
  /\ absID' = absID + 1
  /\ UNCHANGED session
  /\ UNCHANGED aside
  /\ UNCHANGED <<nEMC, nCPV, sdigArray, fARD, gRandom, nextSig, index, i,
                 contrib, times, pc>>

CompressDigits ==
  /\ pc = "removeCPV"
  /\ absID >= nCPV
  /\ digits' = Compress(digits)
  /\ i' = 0
  /\ pc' = "index"
  /\ UNCHANGED session
  /\ UNCHANGED aside
  /\ UNCHANGED <<nEMC, nCPV, sdigArray, fARD, gRandom, nextSig, index, absID,
                 contrib, times>>

SetIndex ==
  /\ pc = "index"
  /\ i < Len(digits)
  /\ digits' = SetIndexInList(digits, i)
  /\ i' = i + 1
  /\ UNCHANGED session
  /\ UNCHANGED aside
  /\ UNCHANGED <<nEMC, nCPV, sdigArray, fARD, gRandom, nextSig, index, absID,
                 contrib, times, pc>>

DigitizeDone ==
  /\ pc = "index"
  /\ i >= Len(digits)
  /\ pc' = "done"
  /\ UNCHANGED session
  /\ UNCHANGED aside
  /\ UNCHANGED <<nEMC, nCPV, sdigArray, fARD, gRandom, digits, nextSig, index,
                 absID, i, contrib, times>>

-----------------------------------------------------------------------------

Next ==
  \/ DigitizeStart
  \/ FirstSignal
  \/ FirstSignalNullRead
  \/ FirstSignalSegv
  \/ FirstSignalDone
  \/ EMCNoise
  \/ EMCAdd
  \/ EMCAddSegv
  \/ EMCNextInput
  \/ EMCSetTime
  \/ EMCSetTimeNullRead
  \/ EMCSetTimeSegv
  \/ EMCFindNext
  \/ EMCFindNextNullRead
  \/ EMCFindNextSegv
  \/ EMCFindNextDone
  \/ EMCDone
  \/ CPVNoise
  \/ CPVAdd
  \/ CPVNextInput
  \/ CPVAddDone
  \/ CPVFindNext
  \/ CPVFindNextNullRead
  \/ CPVFindNextSegv
  \/ CPVFindNextDone
  \/ CPVDone
  \/ RemoveEMC
  \/ RemoveEMCDone
  \/ RemoveCPV
  \/ CompressDigits
  \/ SetIndex
  \/ DigitizeDone

Spec == Init /\ [][Next]_vars

-----------------------------------------------------------------------------
(* What the claims speak of *)

\* The merge loops are over and no digit has been removed yet.
PostMerge == pc = "removeEMC" /\ absID = 0

Sorted(s) == \A a, b \in DOMAIN s : a < b => s[a].id <= s[b].id

AllSorted == \A k \in DOMAIN sdigArray : Sorted(sdigArray[k])

\* Sum of the amplitudes of the first n records of stream s on channel c.
RECURSIVE AmpSum(_, _, _)
AmpSum(s, c, n) ==
  IF n = 0 THEN 0
  ELSE AmpSum(s, c, n - 1) + (IF s[n].id = c THEN s[n].amp ELSE 0)

\* Sum of the amplitudes of every record of the first m streams on channel c.
RECURSIVE SignalAmp(_, _)
SignalAmp(c, m) ==
  IF m = 0 THEN 0
  ELSE SignalAmp(c, m - 1) + AmpSum(sdigArray[m], c, Len(sdigArray[m]))

\* The same over the records the cursors have passed.
RECURSIVE DrainedAmp(_, _)
DrainedAmp(c, m) ==
  IF m = 0 THEN 0
  ELSE DrainedAmp(c, m - 1) + AmpSum(sdigArray[m], c, index[m])

\* The records of channel c the cursors have passed, as <<stream, position>>.
Drained(c) ==
  {p \in {<<k, r>> : k \in DOMAIN sdigArray, r \in 1..MaxRecords + 1} :
     /\ p[1] \in DOMAIN index
     /\ p[2] <= index[p[1]]
     /\ sdigArray[p[1]][p[2]].id = c}

HasRecord(c) ==
  \E k \in DOMAIN sdigArray : \E r \in DOMAIN sdigArray[k] :
    sdigArray[k][r].id = c

\* No step so far had undefined behaviour: no id was read through a null
\* pointer (the only way nextSig gets 0), and no EMC channel has drained a
\* second record (a store past `times`) or a record whose time truncates to 0
\* (a read of a `times` without elements).
NoUndefinedStep ==
  /\ nextSig # 0
  /\ \A c \in 1..nEMC :
       /\ Cardinality(Drained(c)) <= 1
       /\ \A p \in Drained(c) : ToInt(sdigArray[p[1]][p[2]].time) > 0

\* C1: conservation.  With every stream sorted by channel id, after the merge
\* loops the amplitude of every channel is its digitized noise plus the sum
\* of the amplitudes of all records of that channel in all streams.  Stated
\* for the runs without an undefined step, which the claim covers.
C1_Conservation ==
  (PostMerge /\ AllSorted /\ NoUndefinedStep) =>
    \A c \in 1..nCPV :
      digits[c].amp = Digitize(gRandom[c]) + SignalAmp(c, input)

\* The input of the end-to-end scenario, noise fixed at 0.
IsScenario ==
  /\ nEMC = 4
  /\ nCPV = 6
  /\ input = 1
  /\ Len(sdigArray[1]) = 2
  /\ sdigArray[1][1].id = 2 /\ sdigArray[1][1].amp = Digitize(100)
  /\ sdigArray[1][2].id = 6 /\ sdigArray[1][2].amp = Digitize(50)
  /\ \A c \in 1..nCPV : gRandom[c] = 0

\* C2: in the end-to-end scenario Digitize ends with exactly two digits,
\* channel 2 with amplitude 1.0 at index 0 and channel 6 with amplitude 0.5
\* at index 1.
C2_Scenario ==
  (IsScenario /\ pc = "done") =>
    /\ Len(digits) = 2
    /\ digits[1].id = 2 /\ digits[1].amp = Digitize(100)
    /\ digits[1].index = 0
    /\ digits[2].id = 6 /\ digits[2].amp = Digitize(50)
    /\ digits[2].index = 1

\* C3: channel coverage.  After the two merge loops and before the threshold
\* removal the list holds one digit per channel 1..nCPV, the digit of channel
\* c at position c-1, with or without signal on the channel.
C3_ChannelCoverage ==
  PostMerge =>
    /\ Len(digits) = nCPV
    /\ \A c \in 1..nCPV : digits[c] # NullDigit /\ digits[c].id = c

\* A merged list with a channel that got signal and one that got none.
C3_Witness ==
  /\ PostMerge
  /\ \E c \in 1..nCPV : Drained(c) # {}
  /\ \E c \in 1..nCPV : ~HasRecord(c) /\ digits[c].id = c

\* The least time among the drained records of channel c.
MinDrainedTime(c) ==
  CHOOSE t \in {sdigArray[p[1]][p[2]].time : p \in Drained(c)} :
    \A p \in Drained(c) : t <= sdigArray[p[1]][p[2]].time

\* C4: time derivation.  After the merge the time of every EMC channel for
\* which at least one record was drained is the minimum of the times of the
\* records drained for it.  Stated for the runs without an undefined step,
\* which the claim covers.
C4_TimeIsMinimum ==
  (PostMerge /\ NoUndefinedStep) =>
    \A c \in 1..nEMC :
      Drained(c) # {} => digits[c].time = MinDrainedTime(c)

\* C5: noise-only time.  The digit of a channel on which no stream has a
\* record keeps the time TimeOfNoise returns, from its creation on.
C5_NoiseOnlyTime ==
  \A k \in DOMAIN digits :
    (digits[k] # NullDigit /\ ~HasRecord(digits[k].id)) =>
      digits[k].time = TimeOfNoise

\* The merge has set the time of a signal channel and left a noise-only
\* digit beside it.
C5_Witness ==
  /\ PostMerge
  /\ \E c \in 1..nCPV : Drained(c) # {} /\ digits[c].time # TimeOfNoise
  /\ \E c \in 1..nCPV : ~HasRecord(c) /\ digits[c].time = TimeOfNoise

HasUnsorted == \E k \in DOMAIN sdigArray : ~Sorted(sdigArray[k])

\* C6: ordering violation detection.  With a stream whose channel ids are
\* not non-decreasing Digitize reports an error instead of running to its
\* normal end with some records merged and others skipped.  Stated for the
\* runs without an undefined step, which the claim covers.
C6_OrderingViolationDetected ==
  (HasUnsorted /\ NoUndefinedStep) => pc # "done"

HasEmpty == \E k \in DOMAIN sdigArray : Len(sdigArray[k]) = 0

\* C7: empty input is valid.  With an input stream of zero records Digitize
\* completes normally: it does not end in a fault.
C7_EmptyInputValid == HasEmpty => pc # "segv"

\* The threshold of the class channel c belongs to.
ClassThreshold(c) ==
  IF c <= nEMC THEN fEMCDigitThreshold ELSE fCPVDigitThreshold

\* The amplitude the merge gives channel c: its noise and what was drained.
MergedAmp(c) == Digitize(gRandom[c]) + DrainedAmp(c, input)

InFinalList(c) == \E k \in DOMAIN digits : digits[k].id = c

\* C8: threshold rule.  The merged digit of channel c is in the final list
\* if and only if Calibrate of its amplitude is not strictly below the
\* threshold of its class, fEMCDigitThreshold for 1..nEMC and
\* fCPVDigitThreshold for nEMC+1..nCPV.
C8_ThresholdRule ==
  /\ PostMerge => \A c \in 1..nCPV : digits[c].amp = MergedAmp(c)
  /\ pc \in {"index", "done"} =>
       \A c \in 1..nCPV :
         InFinalList(c) <=> ~CalibrateBelow(MergedAmp(c), ClassThreshold(c))

\* A final list with an EMC channel kept, an EMC channel dropped, and a CPV
\* channel dropped although its amplitude reaches the EMC threshold.
C8_Witness ==
  /\ pc = "done"
  /\ \E c \in 1..nEMC : InFinalList(c)
  /\ \E c \in 1..nEMC : ~InFinalList(c)
  /\ \E c \in (nEMC + 1)..nCPV :
       ~InFinalList(c) /\ ~CalibrateBelow(MergedAmp(c), fEMCDigitThreshold)

\* C9: index density.  At the end of Digitize the list indices are
\* 0..count-1 in list order and the channel ids ascend with them.
C9_IndexDensity ==
  pc = "done" =>
    /\ \A k \in DOMAIN digits :
         digits[k] # NullDigit /\ digits[k].index = k - 1
    /\ \A k, l \in DOMAIN digits : k < l => digits[k].id < digits[l].id

\* A final list of several digits with a dropped channel between two kept.
C9_Witness ==
  /\ pc = "done"
  /\ \E k \in DOMAIN digits :
       k + 1 \in DOMAIN digits /\ digits[k + 1].id > digits[k].id + 1

\* The origin ids input k (0-based) has contributed: the primaries of its
\* drained records, which ShiftPrimary has moved by the input's offset.
ShiftedIds(k) ==
  {sdigArray[k + 1][r].prim[n] :
     r \in 1..index[k + 1], n \in 1..1}

Merging == pc \notin {"start", "first", "segv", "abort"}

IdsBelowBase ==
  \A k \in 0..(input - 1) :
    \A id \in ShiftedIds(k) : id - PrimaryOffset(k) \in 0..(PrimaryBase - 1)

InDigitize ==
  pc \in {"start", "first", "emc", "emcAdd", "emcNext", "cpv", "cpvAdd",
          "cpvNext", "removeEMC", "removeCPV", "index"}

\* C12: streams are read-only.  No step of Digitize changes a record of an
\* input stream: the offset is applied to what goes into the output digit
\* only.  Stated for the runs without an undefined step, which the claim
\* covers.
C12_StreamsReadOnly ==
  [][(InDigitize /\ NoUndefinedStep) => sdigArray' = sdigArray]_vars

\* The offset the inputs of the merge are to get: the mask of the run
\* digitizer for the input, 10000000 times the input's position without one.
OwnOffset(k) == IF fARD # NoARD THEN fARD.mask[k + 1] ELSE PrimaryBase * k

\* The step folds the record under the cursor of input k into a digit.
Folds(k) ==
  /\ pc \in {"emcAdd", "cpvAdd"}
  /\ i = k
  /\ digits' # digits

\* C13: offset applied exactly once.  Every record folded into a digit is
\* the record under the cursor of its input with the offset of that input
\* added to each origin id; the cursor then moves past it (or the run ends),
\* no cursor ever moves back, and no record changes except by being folded:
\* no record is shifted twice and none is folded unshifted.
C13_OffsetOnce ==
  [][InDigitize /\ pc # "start" =>
       \A k \in 0..(input - 1) :
         /\ index'[k + 1] >= index[k + 1]
         /\ Folds(k) =>
              /\ digits'[absID].prim =
                   digits[absID].prim \o
                     [n \in DOMAIN Cur(k).prim |-> Cur(k).prim[n] + OwnOffset(k)]
              /\ index'[k + 1] = index[k + 1] + 1 \/ pc' = "segv"
         /\ \A r \in DOMAIN sdigArray[k + 1] :
              sdigArray'[k + 1][r] # sdigArray[k + 1][r] =>
                Folds(k) /\ r = index[k + 1] + 1]_vars

\* Two inputs with different offsets have each had a record folded.
C13_Witness ==
  /\ pc = "done"
  /\ input = 2
  /\ index[1] >= 1 /\ index[2] >= 1
  /\ PrimaryOffset(0) # PrimaryOffset(1)
  /\ \E k \in DOMAIN digits : Len(digits[k].prim) = 2

\* The cursor of every input the stream loop of channel absID has passed is
\* at the end of its stream or on a record of another channel.
PassedAreDrained ==
  pc \in {"emcAdd", "cpvAdd", "emcNext", "cpvNext"} =>
    \A k \in 0..(input - 1) :
      (k < i \/ pc \in {"emcNext", "cpvNext"}) =>
        Cur(k) = NullDigit \/ Cur(k).id # absID

\* C20: drain all duplicates.  While channel absID is processed a cursor
\* moves only by one record and only over a record whose id is absID, and
\* once the loop has passed an input its cursor is on the first record with
\* another id or at the end: all consecutive records of the channel are
\* consumed and no record of another channel is.
C20_DrainAll ==
  [][InDigitize /\ pc # "start" =>
       /\ \A k \in 0..(input - 1) :
            index'[k + 1] # index[k + 1] =>
              /\ index'[k + 1] = index[k + 1] + 1
              /\ Cur(k) # NullDigit
              /\ Cur(k).id = absID
       /\ PassedAreDrained']_vars

\* Two consecutive records of one stream on the channel have been consumed.
C20_Witness ==
  /\ pc \in {"emcNext", "cpvNext"}
  /\ \E k \in DOMAIN sdigArray :
       /\ index[k] = 2
       /\ sdigArray[k][1].id = absID
       /\ sdigArray[k][2].id = absID

\* The channel ids of the next unread records of the streams.
NextUnread ==
  {Cur(k).id : k \in {kk \in 0..(input - 1) : Cur(kk) # NullDigit}}

\* The rescan that follows a signal channel has looked at every stream.
RescanOver == pc \in {"emcNext", "cpvNext"} /\ i = input

\* C18: next-signal tracking.  When the rescan after a signal channel is
\* over, nextSig is the least channel id among the next unread records of
\* all streams.  Stated for the runs without an undefined step, which the
\* claim covers.
C18_NextSigIsMinimum ==
  (RescanOver /\ NoUndefinedStep /\ NextUnread # {}) =>
    /\ nextSig \in NextUnread
    /\ \A c \in NextUnread : nextSig <= c

\* C19: exhausted stream.  The rescan for the next signal channel does not
\* fault on a stream whose cursor is at its end: it treats the stream as
\* holding no further signal and Digitize runs on.  Stated for the runs
\* without an undefined step before the rescan.
C19_ExhaustedStream ==
  [][(pc \in {"emcNext", "cpvNext"} /\ NoUndefinedStep) => pc' # "segv"]_vars

\* Threshold settings in hundredths, ascending: the EMC value and the CPV
\* value of the constructor.
ThresholdSteps == <<fEMCDigitThreshold, fCPVDigitThreshold>>

ThresholdSettings == {ThresholdSteps[k] : k \in DOMAIN ThresholdSteps}

Ids(ds) == {ds[k].id : k \in DOMAIN ds}

\* The digits of list a are among those of list b.
Among(a, b) == Ids(a) \subseteq Ids(b) /\ Len(a) <= Len(b)

\* C14: threshold monotonicity.  For one merged list, raising the EMC
\* threshold or the CPV threshold by one step of the settings, the other
\* threshold being any of them, never adds a digit: the survivors under the
\* higher threshold are among those under the lower one.  (Any raise of
\* both thresholds is a chain of such steps.)
C14_ThresholdMonotone ==
  PostMerge =>
    \A k \in 1..(Len(ThresholdSteps) - 1) :
      \A t \in ThresholdSettings :
        /\ Among(ThresholdPass(digits, ThresholdSteps[k + 1], t),
                 ThresholdPass(digits, ThresholdSteps[k], t))
        /\ Among(ThresholdPass(digits, t, ThresholdSteps[k + 1]),
                 ThresholdPass(digits, t, ThresholdSteps[k]))

\* A merged list with an EMC digit that survives the lowest setting and not
\* the highest.
C14_Witness ==
  /\ PostMerge
  /\ \E c \in 1..nEMC :
       /\ c \in Ids(ThresholdPass(digits, fEMCDigitThreshold,
                                  fCPVDigitThreshold))
       /\ c \notin Ids(ThresholdPass(digits, fCPVDigitThreshold,
                                     fCPVDigitThreshold))

-----------------------------------------------------------------------------
(* Lines 311-329 applied a second time, to the list they have compacted *)

SecondPass ==
  /\ pc = "done"
  /\ absID' = 0
  /\ pc' = "againEMC"
  /\ UNCHANGED session
  /\ UNCHANGED aside
  /\ UNCHANGED <<nEMC, nCPV, sdigArray, fARD, gRandom, digits, nextSig, index,
                 i, contrib, times>>

AgainRemoveEMC ==
  /\ pc = "againEMC"
  /\ absID < nEMC
  /\ At(digits, absID) # NullDigit
  /\ digits' = Thresholded(digits, absID, fEMCDigitThreshold)
  /\ absID' = absID + 1
  /\ UNCHANGED session
  /\ UNCHANGED aside
  /\ UNCHANGED <<nEMC, nCPV, sdigArray, fARD, gRandom, nextSig, index, i,
                 contrib, times, pc>>

\* The position is past the compacted list: At(absID) is null, GetAmp()
\* reads through it, and RemoveAt of a position outside the list does nothing.
AgainRemoveEMCNullRead ==
  /\ pc = "againEMC"
  /\ absID < nEMC
  /\ At(digits, absID) = NullDigit
  /\ absID' = absID + 1
  /\ UNCHANGED session
  /\ UNCHANGED aside
  /\ UNCHANGED <<nEMC, nCPV, sdigArray, fARD, gRandom, digits, nextSig, index,
                 i, contrib, times, pc>>

AgainRemoveEMCSegv ==
  /\ pc = "againEMC"
  /\ absID < nEMC
  /\ At(digits, absID) = NullDigit
  /\ pc' = "segv"
  /\ UNCHANGED session
  /\ UNCHANGED aside
  /\ UNCHANGED <<nEMC, nCPV, sdigArray, fARD, gRandom, digits, nextSig, index,
                 absID, i, contrib, times>>

AgainRemoveEMCDone ==
  /\ pc = "againEMC"
  /\ absID >= nEMC
  /\ absID' = nEMC
  /\ pc' = "againCPV"
  /\ UNCHANGED session
  /\ UNCHANGED aside
  /\ UNCHANGED <<nEMC, nCPV, sdigArray, fARD, gRandom, digits, nextSig, index,
                 i, contrib, times>>

AgainRemoveCPV ==
  /\ pc = "againCPV"
  /\ absID < nCPV
  /\ At(digits, absID) # NullDigit
  /\ digits' = Thresholded(digits, absID, fCPVDigitThreshold)
  /\ absID' = absID + 1
  /\ UNCHANGED session
  /\ UNCHANGED aside
  /\ UNCHANGED <<nEMC, nCPV, sdigArray, fARD, gRandom, nextSig, index, i,
                 contrib, times, pc>>

AgainRemoveCPVNullRead ==
  /\ pc = "againCPV"
  /\ absID < nCPV
  /\ At(digits, absID) = NullDigit
  /\ absID' = absID + 1
  /\ UNCHANGED session
  /\ UNCHANGED aside
  /\ UNCHANGED <<nEMC, nCPV, sdigArray, fARD, gRandom, digits, nextSig, index,
                 i, contrib, times, pc>>

AgainRemoveCPVSegv ==
  /\ pc = "againCPV"
  /\ absID < nCPV
  /\ At(digits, absID) = NullDigit
  /\ pc' = "segv"
  /\ UNCHANGED session
  /\ UNCHANGED aside
  /\ UNCHANGED <<nEMC, nCPV, sdigArray, fARD, gRandom, digits, nextSig, index,
                 absID, i, contrib, times>>

AgainCompressDigits ==
  /\ pc = "againCPV"
  /\ absID >= nCPV
  /\ digits' = Compress(digits)
  /\ i' = 0
  /\ pc' = "againIndex"
  /\ UNCHANGED session
  /\ UNCHANGED aside
  /\ UNCHANGED <<nEMC, nCPV, sdigArray, fARD, gRandom, nextSig, index, absID,
                 contrib, times>>

AgainSetIndex ==
  /\ pc = "againIndex"
  /\ i < Len(digits)
  /\ digits' = SetIndexInList(digits, i)
  /\ i' = i + 1
  /\ UNCHANGED session
  /\ UNCHANGED aside
  /\ UNCHANGED <<nEMC, nCPV, sdigArray, fARD, gRandom, nextSig, index, absID,
                 contrib, times, pc>>

AgainDone ==
  /\ pc = "againIndex"
  /\ i >= Len(digits)
  /\ pc' = "doneAgain"
  /\ UNCHANGED session
  /\ UNCHANGED aside
  /\ UNCHANGED <<nEMC, nCPV, sdigArray, fARD, gRandom, digits, nextSig, index,
                 absID, i, contrib, times>>

NextAgain ==
  \/ Next
  \/ SecondPass
  \/ AgainRemoveEMC
  \/ AgainRemoveEMCNullRead
  \/ AgainRemoveEMCSegv
  \/ AgainRemoveEMCDone
  \/ AgainRemoveCPV
  \/ AgainRemoveCPVNullRead
  \/ AgainRemoveCPVSegv
  \/ AgainCompressDigits
  \/ AgainSetIndex
  \/ AgainDone

SpecAgain == Init /\ [][NextAgain]_vars

\* C15: compaction idempotence.  No step of a second application of the
\* threshold removal, Compress and the re-indexing changes the list the
\* first application has compacted, and none faults.  Stated for the runs
\* whose first application had no undefined step.
C15_Idempotent ==
  [][(pc \in {"againEMC", "againCPV", "againIndex"} /\ NoUndefinedStep) =>
       (digits' = digits /\ pc' # "segv")]_vars

-----------------------------------------------------------------------------
(* Exec, lines 334-430, and WriteDigits, lines 650-714.  The output tree is *)
(* the one tree fARD->GetTreeD() or gAlice->TreeD() returns; a branch is    *)
(* its name, its title and the number of its entries.                       *)

MaxEvents == 2

\* GetName(): the name of the digitizer.
GetName == "Default"

Options == {"", "print"}

\* treeD->Branch(name, ...), SetTitle(GetName()) and Fill().
FilledBranch(name) == [name |-> name, title |-> GetName, entries |-> 1]

EmptyTree == [exists |-> TRUE, branches |-> <<>>]

\* The output trees a session starts with: none, one without branches, one
\* with the digits branch of this digitizer, one with its digitizer branch,
\* one with both branches of a digitizer of another name.
Trees ==
  { NoTree,
    EmptyTree,
    [EmptyTree EXCEPT !.branches = <<FilledBranch("PHOS")>>],
    [EmptyTree EXCEPT !.branches = <<FilledBranch("AliPHOSDigitizer")>>],
    [EmptyTree EXCEPT !.branches =
       << [FilledBranch("PHOS") EXCEPT !.title = "other"],
          [FilledBranch("AliPHOSDigitizer") EXCEPT !.title = "other"] >>] }

\* A record of a stream: channel, energy in hundredths, time, origin id.
Deposit(c, e, t, p) ==
  [id |-> c, amp |-> Digitize(e), time |-> t, prim |-> <<p>>]

\* The summable digits of the sessions: no stream, an empty stream, two
\* records on one EMC channel, records on two EMC channels, a CPV record,
\* a CPV record before an EMC record, and two streams on one channel.
SessionArrays ==
  { <<>>,
    << <<>> >>,
    << << Deposit(1, 100, 70, 0), Deposit(1, 50, 5, PrimaryBase) >> >>,
    << << Deposit(1, 50, 5, 0), Deposit(2, 100, 70, 0) >> >>,
    << << Deposit(NEmcCells + 1, 100, 70, 0) >> >>,
    << << Deposit(NEmcCells + 1, 100, 70, 0), Deposit(1, 100, 70, 0) >> >>,
    << << Deposit(1, 100, 70, 0) >>, << Deposit(1, 50, 5, 0) >> >> }

\* The input trees of a run digitizer with n inputs: all there, or one missing.
InputTrees(n) ==
  {[k \in 1..n |-> TRUE]} \cup
  {[k \in 1..n |-> k # m] : m \in 1..n}

InitExec ==
  /\ nEMC = GeneralGeometry.nEMC
  /\ nCPV = GeneralGeometry.nCPV
  /\ posted \in SessionArrays
  /\ sdigArray = posted
  /\ \/ fARD = NoARD /\ inputTreeS = <<>> /\ treeE \in 0..MaxEvents
     \/ fARD = RunDigitizer /\ inputTreeS \in InputTrees(Len(posted))
        /\ treeE = 0
  /\ gRandom \in NoiseTapes(nCPV)
  /\ sDigitizer \in BOOLEAN
  /\ treeD \in Trees
  /\ option = ""
  /\ ievent = 0
  /\ nevents = 0
  /\ digits = <<>>
  /\ nextSig = NoSignal
  /\ index = <<>>
  /\ absID = 0
  /\ i = 0
  /\ contrib = 0
  /\ times = <<>>
  /\ pc = "idle"
  /\ folders = <<>>
  /\ headerFile = 0
  /\ feCurtime = 0
  /\ feTime = 0
  /\ feI = 0

\* What Digitize works on; Exec touches sdigArray only.
merge == <<digits, nextSig, index, absID, i, contrib, times>>

\* The caller runs the digitizer.
CallExec ==
  /\ pc = "idle"
  /\ option' \in Options
  /\ pc' = "exec"
  /\ UNCHANGED <<nEMC, nCPV, sdigArray, fARD, gRandom, merge, sDigitizer,
                 treeD, treeE, ievent, nevents, posted, inputTreeS>>
  /\ UNCHANGED aside

\* Lines 341-344.
ExecPrint ==
  /\ pc = "exec"
  /\ option = "print"
  /\ pc' = "idle"
  /\ UNCHANGED <<nEMC, nCPV, sdigArray, fARD, gRandom, merge>>
  /\ UNCHANGED session
  /\ UNCHANGED aside

\* The events of the file counted whether or not a run digitizer is there.
EventsOfFile == treeE

\* Lines 353-362: one event under a run digitizer, the events of the file
\* without one.
EventsToDo == IF fARD # NoARD THEN 1 ELSE treeE

\* Lines 364-367.
ExecNoTree ==
  /\ pc = "exec"
  /\ option # "print"
  /\ ~treeD.exists
  /\ nevents' = EventsToDo
  /\ pc' = "idle"
  /\ UNCHANGED <<nEMC, nCPV, sdigArray, fARD, gRandom, merge, sDigitizer,
                 treeD, treeE, option, ievent, posted, inputTreeS>>
  /\ UNCHANGED aside

\* The digitizer branch never looked for.
DigitizerFoundNever(t) == FALSE

\* Lines 375-383: the loop over the branches of the tree.
PhosFound(t) ==
  \E b \in DOMAIN t.branches :
    t.branches[b].name = "PHOS" /\ t.branches[b].title = GetName

DigitizerFound(t) ==
  \E b \in DOMAIN t.branches :
    t.branches[b].name = "AliPHOSDigitizer" /\ t.branches[b].title = GetName

\* Lines 385-394.
ExecRefuse ==
  /\ pc = "exec"
  /\ option # "print"
  /\ treeD.exists
  /\ PhosFound(treeD) \/ DigitizerFound(treeD)
  /\ nevents' = EventsToDo
  /\ pc' = "idle"
  /\ UNCHANGED <<nEMC, nCPV, sdigArray, fARD, gRandom, merge, sDigitizer,
                 treeD, treeE, option, ievent, posted, inputTreeS>>
  /\ UNCHANGED aside

\* Lines 396-398: the event loop is entered.
ExecBegin ==
  /\ pc = "exec"
  /\ option # "print"
  /\ treeD.exists
  /\ ~PhosFound(treeD)
  /\ ~DigitizerFound(treeD)
  /\ nevents' = EventsToDo
  /\ ievent' = 0
  /\ pc' = "event"
  /\ UNCHANGED <<nEMC, nCPV, sdigArray, fARD, gRandom, merge, sDigitizer,
                 treeD, treeE, option, posted, inputTreeS>>
  /\ UNCHANGED aside

\* The 1-based position of the first input whose tree is missing.
FirstMissing ==
  CHOOSE m \in DOMAIN inputTreeS :
    ~inputTreeS[m] /\ \A k \in 1..(m - 1) : inputTreeS[k]

\* Lines 398-412: the summable digits of the event are read, then Digitize
\* is entered.
ExecReadEvent ==
  /\ pc = "event"
  /\ ievent < nevents
  /\ \A k \in DOMAIN inputTreeS : inputTreeS[k]
  /\ sdigArray' = posted
  /\ pc' = "start"
  /\ UNCHANGED <<nEMC, nCPV, fARD, gRandom, merge>>
  /\ UNCHANGED session
  /\ UNCHANGED aside

\* Lines 400-407: an input tree is missing; the inputs before it have been
\* read.
ExecNoInput ==
  /\ pc = "event"
  /\ ievent < nevents
  /\ \E k \in DOMAIN inputTreeS : ~inputTreeS[k]
  /\ sdigArray' = [k \in DOMAIN sdigArray |->
                     IF k < FirstMissing THEN posted[k] ELSE sdigArray[k]]
  /\ pc' = "idle"
  /\ UNCHANGED <<nEMC, nCPV, fARD, gRandom, merge>>
  /\ UNCHANGED session
  /\ UNCHANGED aside

\* Line 414 and lines 650-714: both branches are made, titled and filled,
\* and the loop goes to the next event.
WriteDigits ==
  /\ pc = "done"
  /\ treeD' = [treeD EXCEPT !.branches =
                 @ \o <<FilledBranch("PHOS"), FilledBranch("AliPHOSDigitizer")>>]
  /\ ievent' = ievent + 1
  /\ pc' = "event"
  /\ UNCHANGED <<nEMC, nCPV, sdigArray, fARD, gRandom, merge, sDigitizer,
                 treeE, option, nevents, posted, inputTreeS>>
  /\ UNCHANGED aside

\* Lines 398 and 422-430: no event is left.
ExecEnd ==
  /\ pc = "event"
  /\ ievent >= nevents
  /\ pc' = "idle"
  /\ UNCHANGED <<nEMC, nCPV, sdigArray, fARD, gRandom, merge>>
  /\ UNCHANGED session
  /\ UNCHANGED aside

NextExec ==
  \/ CallExec
  \/ ExecPrint
  \/ ExecNoTree
  \/ ExecRefuse
  \/ ExecBegin
  \/ ExecReadEvent
  \/ ExecNoInput
  \/ WriteDigits
  \/ ExecEnd
  \/ DigitizeAbort
  \/ Next

SpecExec == InitExec /\ [][NextExec]_vars

\* The tree holds a branch named "PHOS" or "AliPHOSDigitizer" whose title
\* is the name of this digitizer.
HasOwnBranch ==
  \E b \in DOMAIN treeD.branches :
    /\ treeD.branches[b].name \in {"PHOS", "AliPHOSDigitizer"}
    /\ treeD.branches[b].title = GetName

\* C11: duplicate output refusal.  An Exec entered while the output tree
\* holds a branch named "PHOS" or "AliPHOSDigitizer" titled with the
\* digitizer's name returns in its next step, normally, with the tree, the
\* digit list and the streams as they were: no event is digitized, no branch
\* and no entry is added.
C11_DuplicateRefused ==
  [][(pc = "exec" /\ HasOwnBranch) =>
       /\ pc' = "idle"
       /\ treeD' = treeD
       /\ digits' = digits
       /\ sdigArray' = sdigArray]_vars

\* A second Exec has been entered after a first one digitized its events and
\* wrote its branches.
C11_Witness ==
  /\ pc = "exec"
  /\ option = ""
  /\ ievent > 0
  /\ ievent = nevents
  /\ HasOwnBranch
  /\ Len(treeD.branches) >= 2

\* C17: missing collaborator.  In a session whose SDigitizer is not found
\* Exec returns to its caller, the digit list is left as it was handed
\* over (the empty list of the state after construction, neither cleared
\* nor resized) and nothing is written to the tree.
C17_NoPartialOutput ==
  ~sDigitizer =>
    /\ pc # "abort"
    /\ digits = <<>>
    /\ \E t \in Trees : treeD = t

-----------------------------------------------------------------------------
(* The time of the CPV digits *)

\* The stream loop of CPV channel absID is over and the rescan has not begun.
CPVDrained == pc = "cpvNext" /\ i = 0

\* C21 as claimed: a CPV channel for which at least one record was drained
\* has the time of its digit overwritten with the least time of the drained
\* records.  Stated for the runs without an undefined step.
C21_CPVTimeIsMinimum ==
  (CPVDrained /\ NoUndefinedStep /\ Drained(absID) # {}) =>
    digits[absID].time = MinDrainedTime(absID)

\* C21 as amended: the time derivation is that of the EMC class only.  The
\* digit of a CPV channel keeps the time TimeOfNoise returns, whether or not
\* records were drained for it, up to the final list.
C21_CPVKeepsNoiseTime ==
  \A k \in DOMAIN digits :
    digits[k].id > nEMC => digits[k].time = TimeOfNoise

\* A final list holding the digit of a CPV channel for which a record with
\* another time than the noise time was drained.
C21_Witness ==
  /\ pc = "done"
  /\ \E k \in DOMAIN digits :
       /\ digits[k].id > nEMC
       /\ Drained(digits[k].id) # {}
       /\ MinDrainedTime(digits[k].id) # TimeOfNoise

-----------------------------------------------------------------------------
(* The contributions recorded for one channel *)

\* C23: the contribution buffer stays in bounds.  The number of (amplitude,
\* time) entries recorded for the channel in process, contrib, never exceeds
\* the capacity the energies and times arrays were made with, the number of
\* input streams.
C23_ContribInBounds == InDigitize => contrib <= input

(***************************************************************************)
(* FrontEdgeTime called on its own, one loop turn per step                 *)
(***************************************************************************)

\* The longest array of times FrontEdgeTime is called with.
MaxTimes == 3

\* The times the array holds, in tenths; 0 is a recorded time like any other.
TimeValues == {0, 5, 70}

TimeArrays ==
  UNION {[1..n -> TimeValues] : n \in 1..MaxTimes}

MinOf(ts) ==
  CHOOSE t \in {ts[k] : k \in DOMAIN ts} : \A k \in DOMAIN ts : t <= ts[k]

\* The state at the call of FrontEdgeTime(energies, times).
InitFrontEdge ==
  /\ times \in TimeArrays
  /\ pc = "frontEdge"
  /\ feCurtime = 0
  /\ feTime = 0
  /\ feI = 0
  /\ nEMC = NEmcCells
  /\ nCPV = NEmcCells + NCpvPads
  /\ sdigArray = <<>>
  /\ fARD = NoARD
  /\ gRandom = <<0>>
  /\ digits = <<>>
  /\ nextSig = NoSignal
  /\ index = <<>>
  /\ absID = 0
  /\ i = 0
  /\ contrib = 0
  /\ sDigitizer = TRUE
  /\ treeD = NoTree
  /\ treeE = 0
  /\ option = ""
  /\ ievent = 0
  /\ nevents = 0
  /\ posted = <<>>
  /\ inputTreeS = <<>>
  /\ folders = <<>>
  /\ headerFile = 0

\* What FrontEdgeTime leaves alone.
besideFrontEdge ==
  <<nEMC, nCPV, sdigArray, fARD, gRandom, digits, nextSig, index, absID, i,
    contrib, times, folders, headerFile>>

\* Float_t curtime = times->At(0) ; Float_t time = curtime ; Int_t i = 1 ;
FrontEdgeEnter ==
  /\ pc = "frontEdge"
  /\ feCurtime' = times[1]
  /\ feTime' = times[1]
  /\ feI' = 1
  /\ pc' = "scan"
  /\ UNCHANGED session
  /\ UNCHANGED besideFrontEdge

\* One turn of while(curtime) whose times->At(i++) is inside the array.
FrontEdgeTurn ==
  /\ pc = "scan"
  /\ feCurtime # 0
  /\ feI < Len(times)
  /\ feTime' = IF feTime > feCurtime THEN feCurtime ELSE feTime
  /\ feCurtime' = times[feI + 1]
  /\ feI' = feI + 1
  /\ UNCHANGED pc
  /\ UNCHANGED session
  /\ UNCHANGED besideFrontEdge

\* A turn whose times->At(i++) asks for the element at the array's size,
\* where the array's range check answers 0: the loop ends on it.
FrontEdgeOverrunZero ==
  /\ pc = "scan"
  /\ feCurtime # 0
  /\ feI >= Len(times)
  /\ feTime' = IF feTime > feCurtime THEN feCurtime ELSE feTime
  /\ feCurtime' = 0
  /\ feI' = feI + 1
  /\ UNCHANGED pc
  /\ UNCHANGED session
  /\ UNCHANGED besideFrontEdge

\* The same turn where the range check answers with element 0 instead: that
\* element is not 0 (the loop was entered on it), every later turn asks past
\* the size again, and the loop has no other exit.
FrontEdgeOverrunFirst ==
  /\ pc = "scan"
  /\ feCurtime # 0
  /\ feI >= Len(times)
  /\ feTime' = IF feTime > feCurtime THEN feCurtime ELSE feTime
  /\ feCurtime' = times[1]
  /\ feI' = feI + 1
  /\ pc' = "spin"
  /\ UNCHANGED session
  /\ UNCHANGED besideFrontEdge

\* while(curtime) left on curtime = 0 ; return time ;
FrontEdgeReturn ==
  /\ pc = "scan"
  /\ feCurtime = 0
  /\ pc' = "returned"
  /\ UNCHANGED session
  /\ UNCHANGED aside
  /\ UNCHANGED <<nEMC, nCPV, sdigArray, fARD, gRandom, digits, nextSig, index,
                 absID, i, contrib, times>>

NextFrontEdge ==
  \/ FrontEdgeEnter
  \/ FrontEdgeTurn
  \/ FrontEdgeOverrunZero
  \/ FrontEdgeOverrunFirst
  \/ FrontEdgeReturn

SpecFrontEdge == InitFrontEdge /\ [][NextFrontEdge]_vars

\* C22: whatever the values and positions of the recorded times, a zero among
\* them and a zero in first place included, the time FrontEdgeTime returns is
\* the smallest of all the times of the array.
C22_FrontEdgeIsMinimum ==
  pc = "returned" => feTime = MinOf(times)

(***************************************************************************)
(* The order of the steps of Exec                                          *)
(***************************************************************************)

\* Exec is inside its loop over the events, Digitize included.
InEventLoop == pc \notin {"idle", "exec", "frontEdge", "scan", "spin", "returned"}

\* The digit branches of this digitizer the tree holds.
OwnDigitBranches ==
  {b \in DOMAIN treeD.branches :
     /\ treeD.branches[b].name = "PHOS"
     /\ treeD.branches[b].title = GetName}

\* One of the input trees of the run digitizer is missing.
InputMissing ==
  /\ fARD # NoARD
  /\ \E k \in DOMAIN inputTreeS : ~inputTreeS[k]

\* C25, the states: under a run digitizer the event loop of Exec is over one
\* event and Digitize is entered for event 0 only; with an input tree missing
\* Exec is never inside Digitize or before WriteDigits; in every mode, while
\* Exec is in its loop the events before the current one, and only these, have
\* their digit branch in the tree.
C25_EventStates ==
  /\ (fARD # NoARD /\ InEventLoop) => (nevents = 1 /\ ievent <= 1)
  /\ (fARD # NoARD /\ InDigitize) => ievent = 0
  /\ InputMissing => pc \in {"idle", "exec", "event"}
  /\ InEventLoop => Cardinality(OwnDigitBranches) = ievent

\* C25, the steps: the tree changes only in the step from a finished Digitize
\* to the next turn of the event loop, which counts the event; the event
\* counter moves in no step taken inside Digitize; with an input tree missing
\* no step changes the tree or the digit list.
C25_EventSteps ==
  /\ treeD' # treeD =>
       (pc = "done" /\ pc' = "event" /\ ievent' = ievent + 1)
  /\ InDigitize => ievent' = ievent
  /\ pc' = "start" => (pc = "event" /\ ievent < nevents)
  /\ InputMissing => (treeD' = treeD /\ digits' = digits)

\* C25: Exec under a run digitizer processes one event, returns before
\* Digitize and WriteDigits when an input tree is missing, and in every mode
\* writes an event only after its Digitize has finished and before the next
\* event starts.
C25_ExecOrder == []C25_EventStates /\ [][C25_EventSteps]_vars

\* Exec under a run digitizer has digitized and written its one event.
C25_Witness ==
  /\ fARD # NoARD
  /\ pc = "event"
  /\ ievent = 1
  /\ Cardinality(OwnDigitBranches) = 1

(***************************************************************************)
(* MixWith and the SDigits registered on the white board                   *)
(***************************************************************************)

\* The header files are numbered 0..MaxFiles; file 0 is the one the
\* digitizer was constructed with (GetTitle()).
MaxFiles == 3

Files == 0..MaxFiles

\* An array of SDigits named name in the folder of a header file:
\* YSAlice/WhiteBoard/SDigits/PHOS/headerFile/name.
Entry(f, name) == [file |-> f, name |-> name]

\* The entry is never looked for.
RegisteredNever(f) == FALSE

\* gROOT->FindObjectAny(path) for the path of lines 501-504.
Registered(f) ==
  \E k \in DOMAIN folders : folders[k] = Entry(f, GetName)

\* gime->PostSDigits(GetName(), headerFile)
PostSDigits(f) == Append(folders, Entry(f, GetName))

\* The loop of Digitize over the folders: one stream for each folder that
\* holds an array named GetName(), in the order of the folders.
CollectedStreams ==
  SelectSeq(folders, LAMBDA e : e.name = GetName)

\* The state after the constructor: without a run digitizer Init has
\* registered the SDigits of the digitizer's own file; another digitizer may
\* have registered SDigits of its own name before.
InitMix ==
  /\ fARD \in {NoARD, RunDigitizer}
  /\ \E pre \in {<<>>} \cup {<<Entry(f, "Other")>> : f \in Files} :
       folders = IF fARD = NoARD THEN Append(pre, Entry(0, GetName)) ELSE pre
  /\ headerFile = 0
  /\ pc = "idle"
  /\ feCurtime = 0
  /\ feTime = 0
  /\ feI = 0
  /\ nEMC = NEmcCells
  /\ nCPV = NEmcCells + NCpvPads
  /\ sdigArray = <<>>
  /\ gRandom = <<0>>
  /\ digits = <<>>
  /\ nextSig = NoSignal
  /\ index = <<>>
  /\ absID = 0
  /\ i = 0
  /\ contrib = 0
  /\ times = <<>>
  /\ sDigitizer = TRUE
  /\ treeD = NoTree
  /\ treeE = 0
  /\ option = ""
  /\ ievent = 0
  /\ nevents = 0
  /\ posted = <<>>
  /\ inputTreeS = <<>>

\* What MixWith leaves alone.
besideMixWith ==
  <<nEMC, nCPV, sdigArray, fARD, gRandom, digits, nextSig, index, absID, i,
    contrib, times, feCurtime, feTime, feI>>

\* MixWith(headerFile) is called.
CallMixWith ==
  /\ pc = "idle"
  /\ headerFile' \in Files
  /\ pc' = "mixWith"
  /\ UNCHANGED folders
  /\ UNCHANGED session
  /\ UNCHANGED besideMixWith

\* Lines 494-497.
MixWithUnderARD ==
  /\ pc = "mixWith"
  /\ fARD # NoARD
  /\ pc' = "idle"
  /\ UNCHANGED <<folders, headerFile>>
  /\ UNCHANGED session
  /\ UNCHANGED besideMixWith

\* Lines 499-508: the entry exists already.
MixWithExists ==
  /\ pc = "mixWith"
  /\ fARD = NoARD
  /\ Registered(headerFile)
  /\ pc' = "idle"
  /\ UNCHANGED <<folders, headerFile>>
  /\ UNCHANGED session
  /\ UNCHANGED besideMixWith

\* Lines 510-525: the SDigits are registered and the file is opened for
\* reading.
MixWithPost ==
  /\ pc = "mixWith"
  /\ fARD = NoARD
  /\ ~Registered(headerFile)
  /\ folders' = PostSDigits(headerFile)
  /\ pc' = "idle"
  /\ UNCHANGED headerFile
  /\ UNCHANGED session
  /\ UNCHANGED besideMixWith

NextMix ==
  \/ CallMixWith
  \/ MixWithUnderARD
  \/ MixWithExists
  \/ MixWithPost

SpecMix == InitMix /\ [][NextMix]_vars

\* The streams Digitize collects from the folder of header file f.
StreamsOf(f) ==
  {k \in DOMAIN CollectedStreams : CollectedStreams[k].file = f}

\* C24, the steps: a MixWith called with a header file whose SDigits of this
\* digitizer's name are registered leaves the white board as it is.
C24_RegisteredAddsNothing ==
  (pc = "mixWith" /\ Registered(headerFile)) => folders' = folders

\* C24, the states: each header file gives Digitize at most one stream.
C24_OneStreamPerFile ==
  \A f \in Files : Cardinality(StreamsOf(f)) <= 1

====
